---- MODULE Spec2Model ----
(***************************************************************************)
(* Verification model of the fermilatprogram orchestration layer.          *)
(*                                                                         *)
(*   Spec       the two bounded worker pools:                              *)
(*                lkmulty.analyze_grb_multithread  (prog = "analyze")      *)
(*                download.process_excel_and_download (prog = "download")  *)
(*              with the ResultCollector and its lock.                     *)
(*                                                                         *)
(*              The clock counts seconds and advances by THREAD_TIMEOUT    *)
(*              per tick.                                                  *)
(*   SpecFetch  download.download_file and                                 *)
(*              download.query_and_download_fermi_data, one call at a time *)
(*                                                                         *)
(*   SpecClean  cleandir.clean_results_directory, one call                 *)
(*                                                                         *)
(* Every specification leaves the variables of the others at rest.         *)
(***************************************************************************)
EXTENDS Integers, Sequences, FiniteSets, TLC

\* ------------------------------------------------------------------ bounds
MaxItems == 2
MaxWorkers == 2
MaxTicks == 2
MaxRetries == 3
MaxLinks == 2
MaxEntries == 2
MaxInner == 2
MaxThreads == 2
MaxSeconds == 1
MaxEvents == 2
MaxRows == 2
MaxSources == 2
MaxListed == 2

\* lkmulty.py:30
THREAD_TIMEOUT == 3600

\* download.py:28  retries=3
DefaultRetries == 3

\* download.py:72  time.sleep(5)
RetrySleep == 5

\* Generate_gconfig.py:116-117  the margin around the burst, in seconds
TimeMargin == 200

\* photon_analyzer.py:180  the literal 0.9, probabilities being counted in hundredths
ProbFloor == 90

\* GRB names; the code uses a name only as a dictionary key, so the lists
\* are taken up to renaming: names are numbered by first appearance.
GrbName(k) == "GRB" \o ToString(k)

FirstAppearanceOrder(l) ==
    \A j \in DOMAIN l : \A k \in 1..(l[j] - 1) : \E m \in 1..(j - 1) : l[m] = k

GrbLists ==
    {[j \in DOMAIN l |-> GrbName(l[j])] :
        l \in {x \in UNION {[1..n -> 1..MaxItems] : n \in 0..MaxItems} :
                  FirstAppearanceOrder(x)}}

VARIABLES
    prog,           \* which driver runs: "analyze" | "download"
    grb_list,       \* the items, in submission order (grb_list / gcn_name of the rows)
    max_workers,    \* the max_workers argument
    mpc,            \* position of the calling (main) thread
    submitted,      \* number of executor.submit calls made
    st,             \* per task: "new" | "queued" | "running" | "add" | "in_lock" | "finished"
    runs,           \* per task: how many times the worker function was entered
    out,            \* per task: outcome of the worker body
    lock,           \* ResultCollector._lock: holder, or Free
    results,        \* ResultCollector._results
    errors,         \* ResultCollector._errors
    passed_result,  \* names passed to add_result so far
    passed_error,   \* names passed to add_error so far
    mainOp,         \* collector method the main thread is in
    summary,        \* the two lengths read by get_summary
    cur,            \* the future the main loop is handling (task index, 0 = none)
    batch,          \* as_completed: finished futures about to be yielded
    pending,        \* as_completed: futures not yet collected
    completed,      \* the main loop's counter of yielded futures
    now,            \* the clock
    end_time,       \* as_completed: deadline, -1 = no timeout
    started,        \* per task: clock at the start of the worker
    overtime,       \* per task: the worker ran longer than THREAD_TIMEOUT
    ret,            \* what the driver returned: "unset" | "none" | "dicts" | "true" | "false"
    ret_results,    \* the returned results dictionary
    ret_errors,     \* the returned errors dictionary
    exc,            \* exception that left the driver: "" = none
    excel,          \* download: "unreadable" | "ok" (pd.read_excel raised or not)
    df_columns,     \* download: the columns of the sheet
    success_count,  \* download: success_count
    failed_grbs,    \* download: failed_grbs
    net_requests,   \* download: TRUE once any HTTP request was issued
    \* ---- SpecFetch
    f_mode,         \* "direct": download_file alone | "query": query_and_download_fermi_data
    retries,        \* the retries argument of download_file
    fpc,            \* position in the call
    attempt,        \* download_file: the loop variable
    attempt_log,    \* download_file: outcome of every attempt of this call, in order
    dl_slept,       \* download_file: seconds slept by this call
    dl_ret,         \* download_file: "unset" | "true" | "false" | "raised"
    post_result,    \* query: what the POST gave
    get_result,     \* query: what the GET of the results page gave
    wget_links,     \* query: len(wget_links)
    file_idx,       \* query: position in wget_links, from 1
    q_success_count,\* query: success_count
    dl_results,     \* query: what download_file gave for each link, in order
    q_ret,          \* query: "unset" | "true" | "false"
    \* ---- SpecClean
    c_backup,       \* the backup argument
    keep_patterns_arg, \* the keep_patterns argument: not given (None), or a list
    keep_patterns,  \* the local keep_patterns
    dir_exists,     \* os.path.exists(results_dir)
    fs,             \* the entries of results_dir
    fs_before,      \* the entries of results_dir when the call began
    backups,        \* the backup directories next to results_dir
    clock,          \* the wall clock, in seconds
    cpc,            \* position in the call
    todo,           \* entries of os.listdir not yet visited
    item,           \* the entry being visited
    grb_info_backup, \* the content read from the info file, or None
    \* ---- clean_results_directory(backup=True) called by several threads
    b_pc,           \* per thread: position in the call
    backup_lock,    \* cleandir.py:15: 0 when free, else the thread holding it
    b_now,          \* the wall clock, in seconds
    timestamp,      \* per thread: the second read at line 36, -1 before
    b_backups,      \* the backup directories: [timestamp, thread] of their names
    b_dir_exists,   \* os.path.exists(results_dir)
    \* ---- find_highest_prob_photon
    srcprob,        \* what reading the srcprob file gives: "ok" | "missing" | "no_column" | "error"
    events,         \* the EVENTS table: records [ENERGY, prob], prob in hundredths
    prob_threshold, \* the prob_threshold argument, in hundredths
    ph_pc,          \* position in the call
    ph_result,      \* the value returned
    \* ---- format_grb_name
    gcn_name_arg,   \* the argument, a sequence of characters
    gcn_name,       \* the local gcn_name after line 32
    fg_pc,          \* position in the call
    formatted_name, \* the value returned
    \* ---- parse_grb_info
    excel_exists,   \* os.path.exists(excel_file)
    df,             \* the rows of the sheet: [gcn_name, ra_dec, trigger_met, T0, T1]
    grb_name_arg,   \* the grb_name argument
    pg_pc,          \* position in the call
    grb_row,        \* number of the row found, 0 for None
    params,         \* the dictionary returned
    pg_raised,      \* whether the call raised
    \* ---- create_config
    template,       \* what yaml.safe_load gives for the template
    cc_grb_name,    \* the grb_name argument
    grb_params,     \* the grb_params argument
    cc_pc,          \* position in the call
    config,         \* the local config
    written,        \* the configuration dumped to config.yaml, when one was
    cc_raised,      \* whether the call raised
    \* ---- get_grb_list
    data_dir,       \* GRB_DATA_DIR: present or not, and the kind of each entry
    listing,        \* what os.listdir returned, not yet visited
    gl_pc,          \* position in the call
    grb_dirs,       \* the list being built
    gl_raised       \* whether the call raised

poolVars == <<prog, grb_list, max_workers, mpc, submitted, st, runs, out, lock,
          results, errors, passed_result, passed_error, mainOp, summary, cur,
          batch, pending, completed, now, end_time, started, overtime, ret,
          ret_results, ret_errors, exc, excel, df_columns, success_count, failed_grbs,
          net_requests>>

fetchVars == <<f_mode, retries, fpc, attempt, attempt_log, dl_slept, dl_ret,
               post_result, get_result, wget_links, file_idx, q_success_count,
               dl_results, q_ret>>

cleanVars == <<c_backup, keep_patterns_arg, keep_patterns, dir_exists, fs,
               fs_before, backups, clock, cpc, todo, item, grb_info_backup>>

backupVars == <<b_pc, backup_lock, b_now, timestamp, b_backups, b_dir_exists>>

photonVars == <<srcprob, events, prob_threshold, ph_pc, ph_result>>

\* the variables of the pure functions
formatVars == <<gcn_name_arg, gcn_name, fg_pc, formatted_name>>

parseVars == <<excel_exists, df, grb_name_arg, pg_pc, grb_row, params, pg_raised>>

configVars == <<template, cc_grb_name, grb_params, cc_pc, config, written, cc_raised>>

listVars == <<data_dir, listing, gl_pc, grb_dirs, gl_raised>>

pureVars == <<photonVars, formatVars, parseVars, configVars, listVars>>

vars == <<poolVars, fetchVars, cleanVars, backupVars, pureVars>>

\* the variables each specification leaves at rest
notPool == <<fetchVars, cleanVars, backupVars, pureVars>>
notFetch == <<poolVars, cleanVars, backupVars, pureVars>>
notClean == <<poolVars, fetchVars, backupVars, pureVars>>
notBackup == <<poolVars, fetchVars, cleanVars, pureVars>>
notPure == <<poolVars, fetchVars, cleanVars, backupVars>>
notPhoton == <<notPure, formatVars, parseVars, configVars, listVars>>
notFormat == <<notPure, photonVars, parseVars, configVars, listVars>>
notParse == <<notPure, photonVars, formatVars, configVars, listVars>>
notConfig == <<notPure, photonVars, formatVars, parseVars, listVars>>
notList == <<notPure, photonVars, formatVars, parseVars, configVars>>

\* ------------------------------------------------------------------ helpers
Tasks == 1..Len(grb_list)

EmptyDict == [n \in {} |-> ""]

\* d[key] = value of a Python dict
DictSet(d, key, value) == (key :> value) @@ d

Free == <<"free", 0>>
MainThread == <<"main", 0>>
WorkerThread(i) == <<"worker", i>>

\* tasks that occupy a pool thread
Running == {i \in Tasks : st[i] \in {"running", "add", "in_lock"}}
Queued == {i \in Tasks : st[i] = "queued"}
Finished == {i \in Tasks : st[i] = "finished"}

Min(S) == CHOOSE x \in S : \A y \in S : x <= y

\* download.py:217
required_columns == {"gcn_name", "trigger_met", "ra,dec", "T0", "T1"}

\* ------------------------------------------------------------------ Init
PoolInputs ==
    /\ prog \in {"analyze", "download"}
    /\ grb_list \in GrbLists
    /\ max_workers \in 0..MaxWorkers
    /\ excel \in {"unreadable", "ok"}
    /\ df_columns \in SUBSET required_columns
    /\ (prog = "analyze" => excel = "ok" /\ df_columns = required_columns)
    /\ (excel = "unreadable" => grb_list = <<>> /\ df_columns = {})

\* no driver is called
PoolNoInputs ==
    /\ prog = "none"
    /\ grb_list = <<>>
    /\ max_workers = 0
    /\ excel = "ok"
    /\ df_columns = {}

PoolStart ==
    /\ mpc = "start"
    /\ submitted = 0
    /\ st = [i \in Tasks |-> "new"]
    /\ runs = [i \in Tasks |-> 0]
    /\ out = [i \in Tasks |-> ""]
    /\ lock = Free
    /\ results = EmptyDict
    /\ errors = EmptyDict
    /\ passed_result = {}
    /\ passed_error = {}
    /\ mainOp = ""
    /\ summary = <<-1, -1>>
    /\ cur = 0
    /\ batch = {}
    /\ pending = {}
    /\ completed = 0
    /\ now = 0
    /\ end_time = -1
    /\ started = [i \in Tasks |-> 0]
    /\ overtime = [i \in Tasks |-> FALSE]
    /\ ret = "unset"
    /\ ret_results = EmptyDict
    /\ ret_errors = EmptyDict
    /\ exc = ""
    /\ success_count = 0
    /\ failed_grbs = <<>>
    /\ net_requests = FALSE

PoolIdle == PoolNoInputs /\ PoolStart

\* no call of download_file or query_and_download_fermi_data
FetchIdle ==
    /\ f_mode = "none"
    /\ retries = 0
    /\ fpc = "done"
    /\ attempt = 0
    /\ attempt_log = <<>>
    /\ dl_slept = 0
    /\ dl_ret = "unset"
    /\ post_result = ""
    /\ get_result = ""
    /\ wget_links = 0
    /\ file_idx = 0
    /\ q_success_count = 0
    /\ dl_results = <<>>
    /\ q_ret = "unset"


\* groups of variables, for UNCHANGED
inputVars == <<prog, grb_list, max_workers, excel, df_columns>>
collectorVars == <<lock, results, errors, passed_result, passed_error>>
taskVars == <<st, runs, out, started, overtime>>
iterVars == <<batch, pending, completed, end_time, cur>>
retVars == <<ret, ret_results, ret_errors, exc>>
downloadVars == <<success_count, failed_grbs, net_requests>>

\* ------------------------------------------------------------------ the pool
\* Faulty variant, for comparison: a pool that would start a queued task whatever the number of busy threads.
PoolUnbounded == TRUE

\* ThreadPoolExecutor(max_workers=max_workers): a queued task starts only
\* while fewer than max_workers tasks occupy a thread.
PoolHasIdleThread == Cardinality(Running) < max_workers

\* A pool thread takes the oldest queued task and enters the worker function.
WorkerStart(i) ==
    /\ Queued # {}
    /\ i = Min(Queued)
    /\ PoolHasIdleThread
    /\ st' = [st EXCEPT ![i] = "running"]
    /\ runs' = [runs EXCEPT ![i] = @ + 1]
    /\ started' = [started EXCEPT ![i] = now]
    /\ UNCHANGED <<notPool, inputVars, collectorVars, iterVars, retVars, downloadVars,
                   mpc, submitted, out, overtime, mainOp, summary, now>>

\* Time passes while some analysis is running.  Submitting takes no
\* measurable time: the clock starts with the call of as_completed.
Tick ==
    /\ prog = "analyze"
    /\ mpc \notin {"start", "submit"}
    /\ \E i \in Tasks : st[i] = "running"
    /\ now < MaxTicks * THREAD_TIMEOUT
    /\ now' = now + THREAD_TIMEOUT
    /\ overtime' = [i \in Tasks |->
                      IF st[i] = "running"
                      THEN now' - started[i] > THREAD_TIMEOUT
                      ELSE overtime[i]]
    /\ UNCHANGED <<notPool, inputVars, collectorVars, iterVars, retVars, downloadVars,
                   mpc, submitted, st, runs, out, started, mainOp, summary>>

\* ------------------------------------------------------------------ ResultCollector
\* Faulty variant, for comparison: a collector whose methods would enter without the lock.
LockIgnored == TRUE

\* `with self._lock:` blocks until the lock is free.
LockFree == lock = Free

\* self._results[grb_name] = result
add_result(d, grb_name, result) == DictSet(d, grb_name, result)

\* Faulty variant, for comparison: an add_error that would lose the entry.
add_error_dropped(d, grb_name, error) == d

\* self._errors[grb_name] = str(error)
add_error(d, grb_name, error) == DictSet(d, grb_name, error)

\* len(self._results), len(self._errors): the two lengths are read in turn
DictLen(d) == Cardinality(DOMAIN d)

\* ------------------------------------------------------------------ analyze_grb_worker
\* What the external engine does to one analysis:
\*   "ok"         every step succeeded and fit_results is truthy
\*   "empty_fit"  no exception, but fit_results is falsy
\*   "exception"  a step outside the inner try blocks raised
EngineOutcomes == {"ok", "empty_fit", "exception"}

\* The collector call the worker ends with (lines 228-241).
\* "fit failed" stands for the literal of line 237, "exception" for str(e).
WorkerCall(o) ==
    IF o = "ok" THEN [method |-> "add_result", value |-> "analysis_result"]
    ELSE IF o = "empty_fit" THEN [method |-> "add_error", value |-> "fit failed"]
    ELSE [method |-> "add_error", value |-> "exception"]

\* The body of analyze_grb_worker up to its collector call.
AnalyzeBody(i, o) ==
    /\ prog = "analyze"
    /\ st[i] = "running"
    /\ out' = [out EXCEPT ![i] = o]
    /\ st' = [st EXCEPT ![i] = "add"]
    /\ started' = [started EXCEPT ![i] = 0]
    /\ IF WorkerCall(o).method = "add_result"
       THEN /\ passed_result' = passed_result \cup {grb_list[i]}
            /\ UNCHANGED passed_error
       ELSE /\ passed_error' = passed_error \cup {grb_list[i]}
            /\ UNCHANGED passed_result
    /\ UNCHANGED <<notPool, inputVars, iterVars, retVars, downloadVars, lock, results,
                   errors, mpc, submitted, runs, overtime, mainOp, summary, now>>

WorkerAcquire(i) ==
    /\ st[i] = "add"
    /\ LockFree
    /\ lock' = WorkerThread(i)
    /\ st' = [st EXCEPT ![i] = "in_lock"]
    /\ UNCHANGED <<notPool, inputVars, iterVars, retVars, downloadVars, results, errors,
                   passed_result, passed_error, mpc, submitted, runs, out,
                   started, overtime, mainOp, summary, now>>

\* The body of add_result / add_error; leaving the with block releases the
\* lock, the worker returns and its future is finished.
WorkerAdd(i) ==
    /\ st[i] = "in_lock"
    /\ LET c == WorkerCall(out[i]) IN
         IF c.method = "add_result"
         THEN /\ results' = add_result(results, grb_list[i], c.value)
              /\ UNCHANGED errors
         ELSE /\ errors' = add_error(errors, grb_list[i], c.value)
              /\ UNCHANGED results
    /\ lock' = Free
    /\ st' = [st EXCEPT ![i] = "finished"]
    /\ UNCHANGED <<notPool, inputVars, iterVars, retVars, downloadVars,
                   passed_result, passed_error, mpc, submitted, runs, out,
                   started, overtime, mainOp, summary, now>>

\* ------------------------------------------------------------------ process_single_grb
\* What one download task does:
\*   "success"          query_and_download_fermi_data returned True
\*   "download_failed"  it returned False
\*   "bad_row"          the row did not parse: (gcn_name, False), no request
\*   "raised"           the function itself raised
TaskOutcomes == {"success", "download_failed", "bad_row", "raised"}

ProcessSingleGrb(i, o) ==
    /\ prog = "download"
    /\ st[i] = "running"
    /\ out' = [out EXCEPT ![i] = o]
    /\ st' = [st EXCEPT ![i] = "finished"]
    /\ net_requests' = (net_requests \/ o \in {"success", "download_failed"})
    /\ UNCHANGED <<notPool, inputVars, collectorVars, iterVars, retVars, success_count,
                   failed_grbs, mpc, submitted, runs, started, overtime,
                   mainOp, summary, now>>

\* ------------------------------------------------------------------ the drivers
\* analyze_grb_multithread up to the creation of the executor (lines 253-268).
\* ThreadPoolExecutor raises ValueError for max_workers <= 0.
AnalyzeStart ==
    /\ prog = "analyze"
    /\ mpc = "start"
    /\ IF grb_list = <<>>
       THEN /\ ret' = "none"
            /\ mpc' = "returned"
            /\ UNCHANGED exc
       ELSE IF max_workers <= 0
       THEN /\ exc' = "ValueError"
            /\ mpc' = "raised"
            /\ UNCHANGED ret
       ELSE /\ mpc' = "submit"
            /\ UNCHANGED <<ret, exc>>
    /\ UNCHANGED <<notPool, inputVars, collectorVars, taskVars, iterVars, downloadVars,
                   submitted, mainOp, summary, now, ret_results, ret_errors>>

\* Faulty variant, for comparison: a driver that would not look at the columns.
missing_columns_unchecked == {}

\* download.py:218  [col for col in required_columns if col not in df.columns]
missing_columns == {col \in required_columns : col \notin df_columns}

\* process_excel_and_download up to the creation of the executor
\* (lines 211-231): read_excel, the ValueError for missing columns and the
\* ValueError of ThreadPoolExecutor all end in the handler of line 264.
DownloadStart ==
    /\ prog = "download"
    /\ mpc = "start"
    /\ IF excel # "ok" \/ missing_columns # {} \/ max_workers <= 0
       THEN /\ ret' = "false"
            /\ mpc' = "returned"
       ELSE /\ mpc' = "submit"
            /\ UNCHANGED ret
    /\ UNCHANGED <<notPool, inputVars, collectorVars, taskVars, iterVars, downloadVars,
                   submitted, mainOp, summary, now, ret_results, ret_errors, exc>>

\* executor.submit for the next item of the list
Submit ==
    /\ mpc = "submit"
    /\ submitted < Len(grb_list)
    /\ submitted' = submitted + 1
    /\ st' = [st EXCEPT ![submitted + 1] = "queued"]
    /\ UNCHANGED <<notPool, inputVars, collectorVars, iterVars, retVars, downloadVars,
                   mpc, runs, out, started, overtime, mainOp, summary, now>>

\* as_completed(fs, timeout): the deadline is fixed at the call, for the
\* whole iteration; the futures already finished are yielded first.
AsCompletedTimeout == IF prog = "analyze" THEN THREAD_TIMEOUT ELSE -1

AsCompletedStart ==
    /\ mpc = "submit"
    /\ submitted = Len(grb_list)
    /\ end_time' = IF AsCompletedTimeout >= 0 THEN now + AsCompletedTimeout ELSE -1
    /\ batch' = Finished
    /\ pending' = Tasks \ Finished
    /\ mpc' = "yield"
    /\ UNCHANGED <<notPool, inputVars, collectorVars, taskVars, retVars, downloadVars,
                   submitted, completed, cur, mainOp, summary, now>>

Expired == end_time >= 0 /\ now > end_time

\* the for statement takes the next future of the batch
AsCompletedYield(f) ==
    /\ mpc = "yield"
    /\ f \in batch
    /\ batch' = batch \ {f}
    /\ cur' = f
    /\ completed' = completed + 1
    /\ mpc' = "result"
    /\ UNCHANGED <<notPool, inputVars, collectorVars, taskVars, retVars, downloadVars,
                   submitted, pending, end_time, mainOp, summary, now>>

\* `while pending:` with the deadline check; TimeoutError is raised by the
\* iterator, in the for statement, outside the try of lines 282-291.
AsCompletedCheck ==
    /\ mpc = "yield"
    /\ batch = {}
    /\ IF pending = {}
       THEN /\ mpc' = "exit"
            /\ UNCHANGED exc
       ELSE IF Expired
       THEN /\ exc' = "TimeoutError"
            /\ mpc' = "exit"
       ELSE /\ mpc' = "wait"
            /\ UNCHANGED exc
    /\ UNCHANGED <<notPool, inputVars, collectorVars, taskVars, iterVars, downloadVars,
                   submitted, mainOp, summary, now, ret, ret_results, ret_errors>>

\* waiter.event.wait(wait_timeout) returns when a future finished or the
\* deadline is reached; the futures finished meanwhile form the next batch.
AsCompletedWait ==
    /\ mpc = "wait"
    /\ \/ Finished \cap pending # {}
       \/ (end_time >= 0 /\ now >= end_time)
    /\ batch' = Finished \cap pending
    /\ pending' = pending \ Finished
    /\ mpc' = "yield"
    /\ UNCHANGED <<notPool, inputVars, collectorVars, taskVars, retVars, downloadVars,
                   submitted, completed, end_time, cur, mainOp, summary, now>>

\* future.result() of a finished future: the worker's return value, or the
\* exception it raised.  analyze_grb_worker catches Exception, so its
\* future never holds one.
FutureResult(f) ==
    IF prog = "analyze" THEN "None"
    ELSE IF out[f] = "raised" THEN "Exception"
    ELSE IF out[f] = "success" THEN "True"
    ELSE "False"

\* lines 282-291 of lkmulty.py
AnalyzeResult ==
    /\ prog = "analyze"
    /\ mpc = "result"
    /\ LET r == FutureResult(cur) IN
         IF r = "TimeoutError"
         THEN /\ mainOp' = "add_error"
              /\ passed_error' = passed_error \cup {grb_list[cur]}
              /\ mpc' = "acquire"
         ELSE IF r = "Exception"
         THEN /\ mpc' = "yield"
              /\ UNCHANGED <<mainOp, passed_error>>
         ELSE /\ mainOp' = "get_summary"
              /\ mpc' = "acquire"
              /\ UNCHANGED passed_error
    /\ UNCHANGED <<notPool, inputVars, taskVars, iterVars, retVars, downloadVars, lock,
                   results, errors, passed_result, submitted, summary, now>>

TaskName(idx) == "Task-" \o ToString(idx)

\* lines 240-250 of download.py; the row index of iterrows starts at 0
DownloadResult ==
    /\ prog = "download"
    /\ mpc = "result"
    /\ LET r == FutureResult(cur) IN
         IF r = "Exception"
         THEN /\ failed_grbs' = Append(failed_grbs, TaskName(cur - 1))
              /\ UNCHANGED success_count
         ELSE IF r = "True"
         THEN /\ success_count' = success_count + 1
              /\ UNCHANGED failed_grbs
         ELSE /\ failed_grbs' = Append(failed_grbs, grb_list[cur])
              /\ UNCHANGED success_count
    /\ mpc' = "yield"
    /\ UNCHANGED <<notPool, inputVars, collectorVars, taskVars, iterVars, retVars,
                   net_requests, submitted, mainOp, summary, now>>

\* The main thread enters a collector method.
MainAcquire ==
    /\ mpc = "acquire"
    /\ LockFree
    /\ lock' = MainThread
    /\ mpc' = "locked"
    /\ UNCHANGED <<notPool, inputVars, taskVars, iterVars, retVars, downloadVars, results,
                   errors, passed_result, passed_error, submitted, mainOp,
                   summary, now>>

\* first half of the method body
MainLocked ==
    /\ mpc = "locked"
    /\ IF mainOp = "get_summary"
       THEN /\ summary' = <<DictLen(results), -1>>
            /\ UNCHANGED <<errors, ret_results>>
       ELSE IF mainOp = "get_results"
       THEN /\ ret_results' = results
            /\ UNCHANGED <<errors, summary>>
       ELSE /\ errors' = add_error(errors, grb_list[cur], "analysis timed out")
            /\ UNCHANGED <<summary, ret_results>>
    /\ mpc' = "locked2"
    /\ UNCHANGED <<notPool, inputVars, taskVars, iterVars, downloadVars, lock, results,
                   passed_result, passed_error, submitted, mainOp, now, ret,
                   ret_errors, exc>>

\* second half of the method body
MainLocked2 ==
    /\ mpc = "locked2"
    /\ IF mainOp = "get_summary"
       THEN /\ summary' = <<summary[1], DictLen(errors)>>
            /\ UNCHANGED ret_errors
       ELSE IF mainOp = "get_results"
       THEN /\ ret_errors' = errors
            /\ UNCHANGED summary
       ELSE UNCHANGED <<summary, ret_errors>>
    /\ mpc' = "release"
    /\ UNCHANGED <<notPool, inputVars, collectorVars, taskVars, iterVars, downloadVars,
                   submitted, mainOp, now, ret, ret_results, exc>>

\* the method returns; get_results is followed by the return of line 309
MainRelease ==
    /\ mpc = "release"
    /\ lock' = Free
    /\ IF mainOp = "get_results"
       THEN /\ ret' = "dicts"
            /\ mpc' = "returned"
       ELSE /\ mpc' = "yield"
            /\ UNCHANGED ret
    /\ summary' = <<-1, -1>>
    /\ UNCHANGED <<notPool, inputVars, taskVars, iterVars, downloadVars, results, errors,
                   passed_result, passed_error, submitted, mainOp, now,
                   ret_results, ret_errors, exc>>

\* Faulty variant, for comparison: a with block that would be left without waiting for the tasks.
ShutdownNoWait == TRUE

\* Leaving the with block: shutdown(wait=True) waits for every submitted
\* task, also when an exception is leaving the block.
ShutdownWait == Finished = Tasks

\* Faulty variant, for comparison: a return value that would ignore success_count.
AnyCountReturnsTrue == TRUE

\* download.py:262  return success_count == len(df)
AllSucceeded == success_count = Len(grb_list)

ExitWith ==
    /\ mpc = "exit"
    /\ ShutdownWait
    /\ IF prog = "download"
       THEN /\ ret' = IF exc = "" /\ AllSucceeded THEN "true" ELSE "false"
            /\ mpc' = "returned"
            /\ UNCHANGED mainOp
       ELSE IF exc # ""
       THEN /\ mpc' = "raised"
            /\ UNCHANGED <<ret, mainOp>>
       ELSE /\ mainOp' = "get_results"
            /\ mpc' = "acquire"
            /\ UNCHANGED ret
    /\ UNCHANGED <<notPool, inputVars, collectorVars, taskVars, iterVars, downloadVars,
                   submitted, summary, now, ret_results, ret_errors, exc>>

\* ================================================================== SpecFetch
\* download.download_file and download.query_and_download_fermi_data, one
\* call at a time.  f_mode = "direct": download_file(url, retries=n) alone;
\* f_mode = "query": query_and_download_fermi_data, which calls
\* download_file with the default retries for every link it finds.

\* What the server and the disk do to one attempt of download_file
\* (lines 49-68): "ok", or any exception of the try block.
AttemptOutcomes == {"ok", "fail"}

FetchCall ==
    /\ f_mode \in {"direct", "query"}
    /\ retries \in (IF f_mode = "direct" THEN 0..MaxRetries ELSE {DefaultRetries})
    /\ fpc = IF f_mode = "direct" THEN "dl_start" ELSE "q_post"
    /\ attempt = 0
    /\ attempt_log = <<>>
    /\ dl_slept = 0
    /\ dl_ret = "unset"
    /\ post_result = ""
    /\ get_result = ""
    /\ wget_links = 0
    /\ file_idx = 0
    /\ q_success_count = 0
    /\ dl_results = <<>>
    /\ q_ret = "unset"


\* ---- download_file
\* os.makedirs(save_dir, exist_ok=True) and the file name, lines 38-44;
\* an OSError of makedirs leaves the function, outside any try.
DlEnter(ok) ==
    /\ fpc = "dl_start"
    /\ attempt' = 0
    /\ attempt_log' = <<>>
    /\ dl_slept' = 0
    /\ IF ok
       THEN /\ fpc' = "dl_loop"
            /\ dl_ret' = "unset"
       ELSE /\ fpc' = "dl_done"
            /\ dl_ret' = "raised"
    /\ UNCHANGED <<f_mode, retries, post_result, get_result, wget_links,
                   file_idx, q_success_count, dl_results, q_ret, notFetch>>

\* Faulty variant, for comparison: a loop that would make one attempt more than retries.
RetriesOffByOne == attempt <= retries

\* for attempt in range(retries)
MoreAttempts == attempt < retries

\* one pass of the try block: return True, or fall into the handler
DlAttempt(o) ==
    /\ fpc = "dl_loop"
    /\ MoreAttempts
    /\ attempt_log' = Append(attempt_log, o)
    /\ IF o = "ok"
       THEN /\ dl_ret' = "true"
            /\ fpc' = "dl_done"
       ELSE /\ fpc' = "dl_sleep"
            /\ UNCHANGED dl_ret
    /\ UNCHANGED <<f_mode, retries, attempt, dl_slept, post_result, get_result,
                   wget_links, file_idx, q_success_count, dl_results, q_ret,
                   notFetch>>

\* the handler: time.sleep(5), then the next value of the loop variable
DlSleep ==
    /\ fpc = "dl_sleep"
    /\ dl_slept' = dl_slept + RetrySleep
    /\ attempt' = attempt + 1
    /\ fpc' = "dl_loop"
    /\ UNCHANGED <<f_mode, retries, attempt_log, dl_ret, post_result,
                   get_result, wget_links, file_idx, q_success_count,
                   dl_results, q_ret, notFetch>>

\* the loop is exhausted: return False
DlExhausted ==
    /\ fpc = "dl_loop"
    /\ ~MoreAttempts
    /\ dl_ret' = "false"
    /\ fpc' = "dl_done"
    /\ UNCHANGED <<f_mode, retries, attempt, attempt_log, dl_slept,
                   post_result, get_result, wget_links, file_idx,
                   q_success_count, dl_results, q_ret, notFetch>>

\* ---- query_and_download_fermi_data
\* requests.post and the search for the results-page link, lines 106-122:
\*   "error"    requests raised, or raise_for_status did
\*   "no_link"  the response holds no QueryResults link (ValueError)
\*   "link"     the link was found
PostOutcomes == {"error", "no_link", "link"}

QueryPost(o) ==
    /\ fpc = "q_post"
    /\ post_result' = o
    /\ IF o = "link"
       THEN /\ fpc' = "q_get"
            /\ UNCHANGED q_ret
       ELSE /\ q_ret' = "false"
            /\ fpc' = "done"
    /\ UNCHANGED <<f_mode, retries, attempt, attempt_log, dl_slept, dl_ret,
                   get_result, wget_links, file_idx, q_success_count,
                   dl_results, notFetch>>

\* requests.get of the results page and re.findall of the wget links,
\* lines 125-133: an HTTP error, or a page with n links (n = 0: ValueError)
QueryGet(ok, n) ==
    /\ fpc = "q_get"
    /\ get_result' = IF ok THEN "page" ELSE "error"
    /\ wget_links' = IF ok THEN n ELSE 0
    /\ IF ok /\ n > 0
       THEN /\ file_idx' = 1
            /\ q_success_count' = 0
            /\ fpc' = "q_loop"
            /\ UNCHANGED q_ret
       ELSE /\ q_ret' = "false"
            /\ fpc' = "done"
            /\ UNCHANGED <<file_idx, q_success_count>>
    /\ UNCHANGED <<f_mode, retries, attempt, attempt_log, dl_slept, dl_ret,
                   post_result, dl_results, notFetch>>

\* Faulty variant, for comparison: a return value that would accept one downloaded link.
AnySuccessReturnsTrue == q_success_count > 0

\* line 148: return success_count == len(wget_links)
QueryReturnValue == q_success_count = wget_links

\* for file_url in wget_links: the call of download_file, or the end of the
\* loop and the return of line 148
QueryLoop ==
    /\ fpc = "q_loop"
    /\ IF file_idx <= wget_links
       THEN /\ fpc' = "dl_start"
            /\ UNCHANGED q_ret
       ELSE /\ q_ret' = IF QueryReturnValue THEN "true" ELSE "false"
            /\ fpc' = "done"
    /\ UNCHANGED <<f_mode, retries, attempt, attempt_log, dl_slept, dl_ret,
                   post_result, get_result, wget_links, file_idx,
                   q_success_count, dl_results, notFetch>>

\* download_file returns to its caller; an exception it raised is caught by
\* the handler of line 144
DlReturn ==
    /\ fpc = "dl_done"
    /\ IF f_mode = "direct"
       THEN /\ fpc' = "done"
            /\ UNCHANGED <<file_idx, q_success_count, dl_results, q_ret>>
       ELSE /\ dl_results' = Append(dl_results, dl_ret)
            /\ IF dl_ret = "raised"
               THEN /\ q_ret' = "false"
                    /\ fpc' = "done"
                    /\ UNCHANGED <<file_idx, q_success_count>>
               ELSE /\ q_success_count' = q_success_count + (IF dl_ret = "true" THEN 1 ELSE 0)
                    /\ file_idx' = file_idx + 1
                    /\ fpc' = "q_loop"
                    /\ UNCHANGED q_ret
    /\ UNCHANGED <<f_mode, retries, attempt, attempt_log, dl_slept, dl_ret,
                   post_result, get_result, wget_links, notFetch>>

FetchNext ==
    \/ \E ok \in BOOLEAN : DlEnter(ok)
    \/ \E o \in AttemptOutcomes : DlAttempt(o)
    \/ DlSleep
    \/ DlExhausted
    \/ DlReturn
    \/ \E o \in PostOutcomes : QueryPost(o)
    \/ \E ok \in BOOLEAN, n \in 0..MaxLinks : QueryGet(ok, n)
    \/ QueryLoop

\* ---- properties of SpecFetch
Count(q, x) == Cardinality({j \in DOMAIN q : q[j] = x})

\* C6: download_file(url, retries=n) makes at most n attempts, none after a
\* success; it returns True right after the first success; when it returns,
\* it returns False exactly when all n attempts failed; it has slept 5
\* seconds per failed attempt.
RetryProtocol ==
    /\ Len(attempt_log) <= retries
    /\ \A j \in 1..(Len(attempt_log) - 1) : attempt_log[j] = "fail"
    /\ (attempt_log # <<>> /\ attempt_log[Len(attempt_log)] = "ok") =>
          (fpc \notin {"dl_loop", "dl_sleep"} /\ dl_ret = "true")
    /\ (fpc = "dl_done" /\ dl_ret # "raised") =>
          /\ dl_ret = "true" <=>
                (attempt_log # <<>> /\ attempt_log[Len(attempt_log)] = "ok")
          /\ dl_ret = "false" <=>
                (Len(attempt_log) = retries /\ Count(attempt_log, "ok") = 0)
          /\ dl_slept = RetrySleep * Count(attempt_log, "fail")

\* a call returns True on its last allowed attempt, after two failures
RetryProtocolWitness ==
    /\ fpc = "dl_done"
    /\ retries = 3
    /\ attempt_log = <<"fail", "fail", "ok">>
    /\ dl_ret = "true"

\* C7: query_and_download_fermi_data ends by returning, and returns True
\* exactly when the POST gave a results-page link, the page held at least
\* one wget link and download_file returned True for every link.
QueryReturnsTrueIffAllDownloaded ==
    (f_mode = "query" /\ fpc = "done") =>
        /\ q_ret \in {"true", "false"}
        /\ q_ret = "true" <=>
              /\ post_result = "link"
              /\ get_result = "page"
              /\ wget_links >= 1
              /\ Len(dl_results) = wget_links
              /\ \A j \in DOMAIN dl_results : dl_results[j] = "true"

\* the query returned False although one of its two files was downloaded
QueryReturnWitness ==
    /\ f_mode = "query"
    /\ fpc = "done"
    /\ q_ret = "false"
    /\ dl_results = <<"true", "false">>

\* ================================================================== SpecClean
\* cleandir.clean_results_directory, one call by one thread.  A name is the
\* sequence of its characters; the results directory is a map from the
\* names of its entries to files and subdirectories.

\* cleandir.py:27  ['GRB*.txt']
DefaultKeepPatterns == << <<"G", "R", "B", "*", ".", "t", "x", "t">> >>

LogPattern == <<"*", ".", "l", "o", "g">>

\* the values of the keep_patterns argument that are tried
KeepPatternArgs ==
    { [given |-> FALSE, list |-> <<>>],
      [given |-> TRUE, list |-> <<>>],
      [given |-> TRUE, list |-> <<LogPattern>>],
      [given |-> TRUE, list |-> <<LogPattern>> \o DefaultKeepPatterns] }

TxtSuffix == <<".", "t", "x", "t">>

\* names of the entries a results directory may hold
FileCandidates ==
    { <<"G", "R", "B", "1", ".", "t", "x", "t">>,
      <<"a", ".", "l", "o", "g">>,
      <<"n", "o", "t", "e">> }

DirCandidates == { <<"G", "R", "B", "1">>, <<"x">> }

\* line 69: f"{grb_name}.txt"
GrbInfoFileName(grb_name) == grb_name \o TxtSuffix

\* names of the files a subdirectory may hold
InnerCandidates(d) ==
    { GrbInfoFileName(d),
      <<"G", "R", "B", "1", "_", "f", "i", "t", ".", "t", "x", "t">>,
      <<"a", ".", "l", "o", "g">> }

InnerContents(d, n) == IF n = GrbInfoFileName(d) THEN {"", "info"} ELSE {"data"}

NoChildren == [n \in {} |-> ""]

FileEntry(text) == [kind |-> "file", content |-> text, children |-> NoChildren]

DirEntry(ch) == [kind |-> "dir", content |-> "", children |-> ch]

DirTrees(d) ==
    UNION { {ch \in [sub -> {"", "info", "data"}] :
                \A n \in sub : ch[n] \in InnerContents(d, n)} :
            sub \in {x \in SUBSET InnerCandidates(d) : Cardinality(x) <= MaxInner} }

EntryOptions(n) ==
    IF n \in DirCandidates THEN {DirEntry(ch) : ch \in DirTrees(n)}
    ELSE {FileEntry("data")}

FsTrees ==
    UNION { {t \in [S -> UNION {EntryOptions(n) : n \in S}] :
                \A n \in S : t[n] \in EntryOptions(n)} :
            S \in {x \in SUBSET (FileCandidates \cup DirCandidates) :
                     Cardinality(x) <= MaxEntries} }

\* fnmatch.fnmatch(name, pat) on a POSIX system: '*' matches any run of
\* characters, '?' any single one, every other character itself.
RECURSIVE fnmatch(_, _)
fnmatch(name, pat) ==
    IF pat = <<>> THEN name = <<>>
    ELSE IF Head(pat) = "*"
    THEN fnmatch(name, Tail(pat)) \/ (name # <<>> /\ fnmatch(Tail(name), pat))
    ELSE IF Head(pat) = "?"
    THEN name # <<>> /\ fnmatch(Tail(name), Tail(pat))
    ELSE name # <<>> /\ Head(name) = Head(pat) /\ fnmatch(Tail(name), Tail(pat))

\* Faulty variant, for comparison: a should_keep that would try the first pattern only.
FirstPatternOnly(name, patterns) ==
    patterns # <<>> /\ fnmatch(name, patterns[1])

\* lines 91-95: should_keep
ShouldKeep(name, patterns) ==
    \E j \in DOMAIN patterns : fnmatch(name, patterns[j])

CleanCall ==
    /\ c_backup \in BOOLEAN
    /\ keep_patterns_arg \in KeepPatternArgs
    /\ keep_patterns = <<>>
    /\ dir_exists \in BOOLEAN
    /\ fs \in (IF dir_exists THEN FsTrees ELSE {NoChildren})
    /\ fs_before = fs
    /\ backups \in {{}, {[ts |-> 0, tree |-> NoChildren]}}
    /\ clock \in 0..1
    /\ cpc = "start"
    /\ todo = {}
    /\ item = <<>>
    /\ grb_info_backup = [read |-> FALSE, text |-> ""]

CleanIdle ==
    /\ c_backup = FALSE
    /\ keep_patterns_arg = [given |-> FALSE, list |-> <<>>]
    /\ keep_patterns = <<>>
    /\ dir_exists = FALSE
    /\ fs = NoChildren
    /\ fs_before = NoChildren
    /\ backups = {}
    /\ clock = 0
    /\ cpc = "done"
    /\ todo = {}
    /\ item = <<>>
    /\ grb_info_backup = [read |-> FALSE, text |-> ""]


\* lines 26-33
CleanStart ==
    /\ cpc = "start"
    /\ keep_patterns' = IF keep_patterns_arg.given THEN keep_patterns_arg.list
                        ELSE DefaultKeepPatterns
    /\ cpc' = IF c_backup THEN "backup" ELSE "exists"
    /\ UNCHANGED <<c_backup, keep_patterns_arg, dir_exists, fs, fs_before,
                   backups, clock, todo, item, grb_info_backup, notClean>>

\* lines 34-55: the backup section.  The timestamp has a resolution of one
\* second; a backup carrying the same timestamp makes the call skip its own;
\* copytree may fail, which is caught.
CleanBackup(copied) ==
    /\ cpc = "backup"
    /\ LET existing_backups == {b \in backups : b.ts = clock} IN
         IF existing_backups = {} /\ dir_exists /\ copied
         THEN backups' = backups \cup {[ts |-> clock, tree |-> fs]}
         ELSE UNCHANGED backups
    /\ cpc' = "exists"
    /\ UNCHANGED <<c_backup, keep_patterns_arg, keep_patterns, dir_exists, fs,
                   fs_before, clock, todo, item, grb_info_backup, notClean>>

\* lines 57-63: create a missing directory and return, or list the entries
CleanListdir ==
    /\ cpc = "exists"
    /\ IF ~dir_exists
       THEN /\ dir_exists' = TRUE
            /\ cpc' = "done"
            /\ UNCHANGED todo
       ELSE /\ todo' = DOMAIN fs
            /\ cpc' = "loop"
            /\ UNCHANGED dir_exists
    /\ UNCHANGED <<c_backup, keep_patterns_arg, keep_patterns, fs, fs_before,
                   backups, clock, item, grb_info_backup, notClean>>

\* for item in os.listdir(results_dir), in the order the system lists them
CleanNextItem(it) ==
    /\ cpc = "loop"
    /\ it \in todo
    /\ todo' = todo \ {it}
    /\ item' = it
    /\ cpc' = IF fs[it].kind = "dir" THEN "dir_read" ELSE "file"
    /\ UNCHANGED <<c_backup, keep_patterns_arg, keep_patterns, dir_exists, fs,
                   fs_before, backups, clock, grb_info_backup, notClean>>

CleanLoopEnd ==
    /\ cpc = "loop"
    /\ todo = {}
    /\ cpc' = "done"
    /\ item' = <<>>
    /\ UNCHANGED <<c_backup, keep_patterns_arg, keep_patterns, dir_exists, fs,
                   fs_before, backups, clock, todo, grb_info_backup, notClean>>

\* lines 68-76: read the GRB info file of the subdirectory, if it exists
CleanDirRead ==
    /\ cpc = "dir_read"
    /\ LET grb_info_file == GrbInfoFileName(item) IN
         grb_info_backup' =
            IF grb_info_file \in DOMAIN fs[item].children
            THEN [read |-> TRUE, text |-> fs[item].children[grb_info_file]]
            ELSE [read |-> FALSE, text |-> ""]
    /\ cpc' = "dir_rmtree"
    /\ UNCHANGED <<c_backup, keep_patterns_arg, keep_patterns, dir_exists, fs,
                   fs_before, backups, clock, todo, item, notClean>>

\* line 79: shutil.rmtree(item_path)
CleanDirRmtree ==
    /\ cpc = "dir_rmtree"
    /\ fs' = [n \in DOMAIN fs \ {item} |-> fs[n]]
    /\ cpc' = "dir_makedirs"
    /\ UNCHANGED <<c_backup, keep_patterns_arg, keep_patterns, dir_exists,
                   fs_before, backups, clock, todo, item, grb_info_backup,
                   notClean>>

\* line 84: `if grb_info_backup:` is false for None and for the empty string
GrbInfoBackupTruthy(backup) == backup.read /\ backup.text # ""

\* lines 83-87: recreate the subdirectory and write the info file back
CleanDirRestore ==
    /\ cpc = "dir_makedirs"
    /\ fs' = (item :> DirEntry(
                 IF GrbInfoBackupTruthy(grb_info_backup)
                 THEN (GrbInfoFileName(item) :> grb_info_backup.text)
                 ELSE NoChildren)) @@ fs
    /\ grb_info_backup' = [read |-> FALSE, text |-> ""]
    /\ cpc' = "loop"
    /\ UNCHANGED <<c_backup, keep_patterns_arg, keep_patterns, dir_exists,
                   fs_before, backups, clock, todo, item, notClean>>

\* lines 89-102: a plain file is kept or removed
CleanFile ==
    /\ cpc = "file"
    /\ fs' = IF ShouldKeep(item, keep_patterns) THEN fs
             ELSE [n \in DOMAIN fs \ {item} |-> fs[n]]
    /\ cpc' = "loop"
    /\ UNCHANGED <<c_backup, keep_patterns_arg, keep_patterns, dir_exists,
                   fs_before, backups, clock, todo, item, grb_info_backup,
                   notClean>>

CleanNext ==
    \/ CleanStart
    \/ \E copied \in BOOLEAN : CleanBackup(copied)
    \/ CleanListdir
    \/ \E it \in FileCandidates \cup DirCandidates : CleanNextItem(it)
    \/ CleanLoopEnd
    \/ CleanDirRead
    \/ CleanDirRmtree
    \/ CleanDirRestore
    \/ CleanFile

\* ---- properties of SpecClean
\* the files of a tree, as paths: <<name>> or <<directory, name>>
FilesOf(tree) ==
    {<<n>> : n \in {m \in DOMAIN tree : tree[m].kind = "file"}}
    \cup UNION { {<<d, n>> : n \in DOMAIN tree[d].children} :
                 d \in {m \in DOMAIN tree : tree[m].kind = "dir"} }

BaseName(path) == path[Len(path)]

\* the file name matches at least one of the patterns in force
MatchesSomePattern(name) ==
    \E j \in 1..Len(keep_patterns) : fnmatch(name, keep_patterns[j])

SubdirectoryKeepsInfoFile ==
    cpc = "done" =>
        \A d \in DOMAIN fs_before :
            fs_before[d].kind = "dir" =>
                /\ d \in DOMAIN fs
                /\ fs[d].kind = "dir"
                /\ DOMAIN fs[d].children \subseteq {GrbInfoFileName(d)}
                /\ GrbInfoFileName(d) \in DOMAIN fs_before[d].children =>
                      /\ GrbInfoFileName(d) \in DOMAIN fs[d].children
                      /\ fs[d].children[GrbInfoFileName(d)] =
                            fs_before[d].children[GrbInfoFileName(d)]

\* ------------------------------------------------------------------ backup
\* Several threads of one process call clean_results_directory(backup=True)
\* on the same results directory.
CleanThreads == 1..MaxThreads

BackupCall ==
    /\ b_pc = [t \in CleanThreads |-> "start"]
    /\ backup_lock = 0
    /\ b_now = 0
    /\ timestamp = [t \in CleanThreads |-> -1]
    /\ b_backups = {}
    /\ b_dir_exists \in BOOLEAN

BackupIdle ==
    /\ b_pc = [t \in CleanThreads |-> "done"]
    /\ backup_lock = 0
    /\ b_now = 0
    /\ timestamp = [t \in CleanThreads |-> -1]
    /\ b_backups = {}
    /\ b_dir_exists = FALSE

\* line 34: `with backup_lock:` blocks until the lock is free
BackupLockFree == backup_lock = 0

\* lines 33-34: enter the backup section
BackupAcquire(t) ==
    /\ b_pc[t] = "start"
    /\ BackupLockFree
    /\ backup_lock' = t
    /\ b_pc' = [b_pc EXCEPT ![t] = "stamp"]
    /\ UNCHANGED <<b_now, timestamp, b_backups, b_dir_exists, notBackup>>

\* lines 36-39: the name of the backup directory carries the current second
BackupStamp(t) ==
    /\ b_pc[t] = "stamp"
    /\ timestamp' = [timestamp EXCEPT ![t] = b_now]
    /\ b_pc' = [b_pc EXCEPT ![t] = "listing"]
    /\ UNCHANGED <<backup_lock, b_now, b_backups, b_dir_exists, notBackup>>

\* lines 42-43: the backups whose name starts with
\* "<results_dir>_backup_<timestamp>", the timestamp being this thread's
existing_backups(t) == {b \in b_backups : b.timestamp = timestamp[t]}

\* lines 45-47: skip when such a backup exists or there is nothing to copy
BackupListing(t) ==
    /\ b_pc[t] = "listing"
    /\ b_pc' = [b_pc EXCEPT ![t] =
                  IF existing_backups(t) # {} THEN "release"
                  ELSE IF b_dir_exists THEN "copytree"
                  ELSE "release"]
    /\ UNCHANGED <<backup_lock, b_now, timestamp, b_backups, b_dir_exists, notBackup>>

\* lines 48-55: shutil.copytree(results_dir, backup_dir); a failure is caught
BackupCopytree(t, copied) ==
    /\ b_pc[t] = "copytree"
    /\ b_backups' = IF copied
                    THEN b_backups \cup {[timestamp |-> timestamp[t], thread |-> t]}
                    ELSE b_backups
    /\ b_pc' = [b_pc EXCEPT ![t] = "release"]
    /\ UNCHANGED <<backup_lock, b_now, timestamp, b_dir_exists, notBackup>>

\* end of the with block of line 34
BackupRelease(t) ==
    /\ b_pc[t] = "release"
    /\ backup_lock' = IF backup_lock = t THEN 0 ELSE backup_lock
    /\ b_pc' = [b_pc EXCEPT ![t] = "clean"]
    /\ UNCHANGED <<b_now, timestamp, b_backups, b_dir_exists, notBackup>>

\* lines 57-104: the directory is created when missing, else cleaned
BackupCleanRest(t) ==
    /\ b_pc[t] = "clean"
    /\ b_dir_exists' = TRUE
    /\ b_pc' = [b_pc EXCEPT ![t] = "done"]
    /\ UNCHANGED <<backup_lock, b_now, timestamp, b_backups, notBackup>>

\* a second of wall-clock time passes while a call is under way
BackupTick ==
    /\ b_now < MaxSeconds
    /\ \E t \in CleanThreads : b_pc[t] # "done"
    /\ b_now' = b_now + 1
    /\ UNCHANGED <<b_pc, backup_lock, timestamp, b_backups, b_dir_exists, notBackup>>

BackupNext ==
    \/ \E t \in CleanThreads : BackupAcquire(t)
    \/ \E t \in CleanThreads : BackupStamp(t)
    \/ \E t \in CleanThreads : BackupListing(t)
    \/ \E t \in CleanThreads, copied \in BOOLEAN : BackupCopytree(t, copied)
    \/ \E t \in CleanThreads : BackupRelease(t)
    \/ \E t \in CleanThreads : BackupCleanRest(t)
    \/ BackupTick

\* ---- properties of SpecBackup
InBackupSection(t) == b_pc[t] \in {"stamp", "listing", "copytree", "release"}

\* C12: the backup section is executed by one thread at a time and, of
\* several concurrent calls on the same directory, only one creates a
\* backup copy.
OnlyOneBackupCreated ==
    /\ Cardinality({t \in CleanThreads : InBackupSection(t)}) <= 1
    /\ Cardinality(b_backups) <= 1

\* ------------------------------------------------------------------ find_highest_prob_photon
\* Probabilities are counted in hundredths: 90 stands for 0.9.
Energies == 1..3

Probabilities == {80, 90, 95}

ProbThresholds == {50, 90, 95}

EventTables ==
    UNION { [1..n -> [ENERGY : Energies, prob : Probabilities]] : n \in 0..MaxEvents }

SrcprobOutcomes == {"ok", "missing", "no_column", "error"}

\* the value None
NoPhoton == [found |-> FALSE, event |-> 0, energy |-> 0, probability |-> 0,
             total_high_prob_photons |-> 0]

PhotonCall ==
    /\ srcprob \in SrcprobOutcomes
    /\ events \in EventTables
    /\ prob_threshold \in ProbThresholds
    /\ ph_pc = "start"
    /\ ph_result = NoPhoton

PhotonIdle ==
    /\ srcprob = "ok"
    /\ events = <<>>
    /\ prob_threshold = ProbFloor
    /\ ph_pc = "done"
    /\ ph_result = NoPhoton

\* Faulty variant, for comparison: a mask that would let the threshold itself pass.
HighProbMaskInclusive(p, threshold) == p >= threshold

\* lines 164, 183: prob > prob_threshold, prob > 0.9
HighProbMask(p, threshold) == p > threshold

\* events[mask]: the rows that pass, in table order, as row numbers
MaskedRows(evs, threshold) ==
    SelectSeq([i \in 1..Len(evs) |-> i],
              LAMBDA i : HighProbMask(evs[i].prob, threshold))

\* np.argmax(rows['ENERGY']): the first position holding the largest energy
ArgMaxEnergy(evs, rows) ==
    CHOOSE k \in 1..Len(rows) :
        /\ \A j \in 1..Len(rows) : evs[rows[j]].ENERGY <= evs[rows[k]].ENERGY
        /\ \A j \in 1..(k - 1) : evs[rows[j]].ENERGY < evs[rows[k]].ENERGY

\* line 180: highest_prob < 0.9
BelowFloor(p) == p < ProbFloor

\* lines 215-226: the result dictionary
PhotonResult(evs, row, total) ==
    [found |-> TRUE, event |-> row, energy |-> evs[row].ENERGY,
     probability |-> evs[row].prob, total_high_prob_photons |-> total]

\* lines 161-251
SelectHighestPhoton(evs, threshold) ==
    LET high_prob_events == MaskedRows(evs, threshold) IN
    IF Len(high_prob_events) = 0 THEN NoPhoton
    ELSE LET highest_photon == high_prob_events[ArgMaxEnergy(evs, high_prob_events)] IN
         IF BelowFloor(evs[highest_photon].prob)
         THEN LET very_high_prob_events == MaskedRows(evs, ProbFloor) IN
              IF Len(very_high_prob_events) = 0 THEN NoPhoton
              ELSE PhotonResult(evs,
                       very_high_prob_events[ArgMaxEnergy(evs, very_high_prob_events)],
                       Len(high_prob_events))
         ELSE PhotonResult(evs, highest_photon, Len(high_prob_events))

\* lines 104-146, 253-258: the srcprob file is missing, holds no column of
\* the GRB, or a step raises: None is returned; else the table is read
PhotonOpen ==
    /\ ph_pc = "start"
    /\ ph_pc' = IF srcprob = "ok" THEN "select" ELSE "done"
    /\ UNCHANGED <<srcprob, events, prob_threshold, ph_result, notPhoton>>

PhotonSelect ==
    /\ ph_pc = "select"
    /\ ph_result' = SelectHighestPhoton(events, prob_threshold)
    /\ ph_pc' = "done"
    /\ UNCHANGED <<srcprob, events, prob_threshold, notPhoton>>

PhotonNext ==
    \/ PhotonOpen
    \/ PhotonSelect

\* ---- properties of SpecPhoton
\* the rows whose probability is strictly greater than the threshold
Exceeding(threshold) == {i \in 1..Len(events) : events[i].prob > threshold}

\* the first row of S, in table order, that has the largest energy of S
FirstOfMaxEnergy(S) ==
    CHOOSE i \in S :
        /\ \A j \in S : events[j].ENERGY <= events[i].ENERGY
        /\ \A j \in S : events[j].ENERGY = events[i].ENERGY => i <= j

PhotonReturned == ph_pc = "done" /\ srcprob = "ok"

\* the returned dictionary describes row i of the table
ReturnsRow(i) ==
    /\ ph_result.found
    /\ ph_result.event = i
    /\ ph_result.energy = events[i].ENERGY
    /\ ph_result.probability = events[i].prob

ReturnedProbabilityAboveFloor ==
    (ph_pc = "done" /\ ph_result.found) => ph_result.probability > ProbFloor

\* ------------------------------------------------------------------ format_grb_name
\* Strings are sequences of one-character strings.
lowercase == <<"a", "b", "c", "d", "e", "f", "g", "h", "i", "j", "k", "l", "m",
               "n", "o", "p", "q", "r", "s", "t", "u", "v", "w", "x", "y", "z">>

uppercase == <<"A", "B", "C", "D", "E", "F", "G", "H", "I", "J", "K", "L", "M",
               "N", "O", "P", "Q", "R", "S", "T", "U", "V", "W", "X", "Y", "Z">>

Whitespace == {" ", "\t"}

Digits == {"0", "1", "2", "3", "4", "5", "6", "7", "8", "9"}

Letters == {lowercase[i] : i \in 1..26} \cup {uppercase[i] : i \in 1..26}

\* str.upper on one character
UpperChar(c) ==
    IF \E i \in 1..26 : lowercase[i] = c
    THEN uppercase[CHOOSE i \in 1..26 : lowercase[i] = c]
    ELSE c

\* str.upper
Upper(str) == [i \in 1..Len(str) |-> UpperChar(str[i])]

\* str.strip
RECURSIVE lstrip(_)
lstrip(str) ==
    IF str # <<>> /\ Head(str) \in Whitespace THEN lstrip(Tail(str)) ELSE str

RECURSIVE rstrip(_)
rstrip(str) ==
    IF str # <<>> /\ str[Len(str)] \in Whitespace
    THEN rstrip(SubSeq(str, 1, Len(str) - 1))
    ELSE str

strip(str) == rstrip(lstrip(str))

\* the tried names, put together from a lead, a word before, 'grb' in some
\* case, a gap, digits, a letter and a tail
GcnNames ==
    { l \o b \o h \o g \o d \o c \o t :
        l \in {<<>>, <<" ">>},
        b \in {<<>>, <<"x">>},
        h \in {<<"g", "r", "b">>, <<"G", "R", "B">>, <<"G", "r", "B">>, <<"g", "r">>},
        g \in {<<>>, <<" ">>, <<"\t", " ">>},
        d \in {<<"2", "2", "0", "6", "1", "7">>, <<"2", "2", "0", "6", "1">>,
               <<"2", "2", "0", "6", "1", "7", "0">>},
        c \in {<<"a">>, <<"A">>, <<>>, <<"_">>},
        t \in {<<>>, <<" ">>, <<"z">>,
               <<"g", "r", "b", "0", "0", "0", "0", "0", "0", "b">>} }

\* the end of the run of whitespace that starts at position j
RECURSIVE SkipWhitespace(_, _)
SkipWhitespace(str, j) ==
    IF j <= Len(str) /\ str[j] \in Whitespace THEN SkipWhitespace(str, j + 1) ELSE j

\* line 39: r'grb\s*(\d{6}[a-zA-Z])' with re.IGNORECASE matches at position i
MatchesAt(str, i) ==
    /\ i + 2 <= Len(str)
    /\ Upper(SubSeq(str, i, i + 2)) = <<"G", "R", "B">>
    /\ LET j == SkipWhitespace(str, i + 3) IN
         /\ j + 6 <= Len(str)
         /\ \A k \in j..(j + 5) : str[k] \in Digits
         /\ str[j + 6] \in Letters

\* re.search: the leftmost match, with its group 1, or None
re_search(str) ==
    IF \E i \in 1..Len(str) : MatchesAt(str, i)
    THEN LET i == CHOOSE i \in 1..Len(str) :
                     MatchesAt(str, i) /\ \A k \in 1..(i - 1) : ~MatchesAt(str, k)
             j == SkipWhitespace(str, i + 3)
         IN [matched |-> TRUE, group1 |-> SubSeq(str, j, j + 6)]
    ELSE [matched |-> FALSE, group1 |-> <<>>]

\* Faulty variant, for comparison: a suffix that would keep its letter case.
grb_suffix_as_written(match) == match.group1

\* line 42: match.group(1).upper()
grb_suffix(match) == Upper(match.group1)

\* line 47: gcn_name.upper().startswith('GRB')
StartsWithGRB(str) ==
    Len(str) >= 3 /\ Upper(SubSeq(str, 1, 3)) = <<"G", "R", "B">>

\* line 49: re.sub(r'GRB\s+', 'GRB', str): every 'GRB' followed by
\* whitespace loses that whitespace, from left to right
RECURSIVE re_sub(_)
re_sub(str) ==
    IF str = <<>> THEN <<>>
    ELSE IF /\ Len(str) >= 4
            /\ SubSeq(str, 1, 3) = <<"G", "R", "B">>
            /\ str[4] \in Whitespace
         THEN <<"G", "R", "B">>
              \o re_sub(SubSeq(str, SkipWhitespace(str, 4), Len(str)))
         ELSE <<Head(str)>> \o re_sub(Tail(str))

FormatCall ==
    /\ gcn_name_arg \in GcnNames
    /\ gcn_name = <<>>
    /\ fg_pc = "start"
    /\ formatted_name = <<>>

FormatIdle ==
    /\ gcn_name_arg = <<>>
    /\ gcn_name = <<>>
    /\ fg_pc = "done"
    /\ formatted_name = <<>>

\* line 32: gcn_name = str(gcn_name).strip()
FormatStrip ==
    /\ fg_pc = "start"
    /\ gcn_name' = strip(gcn_name_arg)
    /\ fg_pc' = "search"
    /\ UNCHANGED <<gcn_name_arg, formatted_name, notFormat>>

\* lines 39-44
FormatSearch ==
    /\ fg_pc = "search"
    /\ LET match == re_search(gcn_name) IN
         IF match.matched
         THEN /\ formatted_name' = <<"G", "R", "B">> \o grb_suffix(match)
              /\ fg_pc' = "done"
         ELSE /\ fg_pc' = "standard"
              /\ UNCHANGED formatted_name
    /\ UNCHANGED <<gcn_name_arg, gcn_name, notFormat>>

\* lines 47-53
FormatStandard ==
    /\ fg_pc = "standard"
    /\ formatted_name' = IF StartsWithGRB(gcn_name) THEN re_sub(Upper(gcn_name))
                         ELSE gcn_name
    /\ fg_pc' = "done"
    /\ UNCHANGED <<gcn_name_arg, gcn_name, notFormat>>

FormatNext ==
    \/ FormatStrip
    \/ FormatSearch
    \/ FormatStandard

\* ---- properties of SpecFormat
\* at position i of the argument: 'grb' in any letter case, w characters
\* of whitespace, six digits and one letter
HasGrbPatternAt(i, w) ==
    LET str == gcn_name_arg IN
    /\ i + 9 + w <= Len(str)
    /\ str[i] \in {"g", "G"} /\ str[i + 1] \in {"r", "R"} /\ str[i + 2] \in {"b", "B"}
    /\ \A k \in (i + 3)..(i + 2 + w) : str[k] \in Whitespace
    /\ \A k \in (i + 3 + w)..(i + 8 + w) : str[k] \in Digits
    /\ str[i + 9 + w] \in Letters

HasGrbPattern == \E i \in 1..Len(gcn_name_arg), w \in 0..Len(gcn_name_arg) : HasGrbPatternAt(i, w)

\* the argument without its surrounding whitespace
Stripped ==
    LET str == gcn_name_arg
        Inner == {k \in 1..Len(str) : str[k] \notin Whitespace}
    IN IF Inner = {} THEN <<>>
       ELSE SubSeq(str, CHOOSE a \in Inner : \A k \in Inner : a <= k,
                        CHOOSE b \in Inner : \A k \in Inner : k <= b)

\* C15: a name holding 'grb' (any case), optional whitespace, six digits and
\* a letter becomes 'GRB' + the six digits + the letter in upper case, the
\* leftmost such place counting; a name without such a place that does not
\* begin with 'GRB' in any case comes back stripped and otherwise unchanged.
FormatNormalisesGrbNames ==
    fg_pc = "done" =>
        /\ \A i \in 1..Len(gcn_name_arg), w \in 0..Len(gcn_name_arg) :
              (/\ HasGrbPatternAt(i, w)
               /\ \A k \in 1..(i - 1), v \in 0..Len(gcn_name_arg) : ~HasGrbPatternAt(k, v))
              => formatted_name =
                    <<"G", "R", "B">>
                    \o SubSeq(gcn_name_arg, i + 3 + w, i + 8 + w)
                    \o <<UpperChar(gcn_name_arg[i + 9 + w])>>
        /\ (/\ ~HasGrbPattern
            /\ ~(/\ Len(Stripped) >= 3
                 /\ Stripped[1] \in {"g", "G"}
                 /\ Stripped[2] \in {"r", "R"}
                 /\ Stripped[3] \in {"b", "B"}))
           => formatted_name = Stripped

\* 'grb\t 220617a' with a second name behind it gave 'GRB220617A'
FormatNormalisesWitness ==
    /\ fg_pc = "done"
    /\ gcn_name_arg = <<" ", "x", "g", "r", "b", "\t", " ", "2", "2", "0", "6", "1", "7", "a",
                        "g", "r", "b", "0", "0", "0", "0", "0", "0", "b">>
    /\ formatted_name = <<"G", "R", "B", "2", "2", "0", "6", "1", "7", "A">>

\* ------------------------------------------------------------------ parse_grb_info
\* lines 25-53 as one function
format_grb_name(name) ==
    LET stripped == strip(name)
        match == re_search(stripped)
    IN IF match.matched THEN <<"G", "R", "B">> \o grb_suffix(match)
       ELSE IF StartsWithGRB(stripped) THEN re_sub(Upper(stripped))
       ELSE stripped

\* the names tried as argument and in the gcn_name column
SheetNames ==
    { <<"G", "R", "B", "2", "2", "0", "6", "1", "7", "A">>,
      <<"g", "r", "b", " ", "2", "2", "0", "6", "1", "7", "a">>,
      <<"G", "R", "B", "2", "2", "0", "6", "1", "7", "B">> }

\* the texts tried in the 'ra,dec' column
RaDecCells ==
    { <<"1", "2", ",", " ", "7">>,
      <<"1", "2">>,
      <<"1", ",", "2", ",", "3">>,
      <<"x", ",", "7">> }

\* the numbers tried in the trigger_met, T0 and T1 columns
RowTimes ==
    { [trigger_met |-> 1000, T0 |-> -5, T1 |-> 10],
      [trigger_met |-> 5000, T0 |-> 0, T1 |-> 300] }

SheetRows ==
    { [gcn_name |-> n, ra_dec |-> c, trigger_met |-> t.trigger_met,
       T0 |-> t.T0, T1 |-> t.T1] :
        n \in SheetNames, c \in RaDecCells, t \in RowTimes }

Sheets == UNION { [1..n -> SheetRows] : n \in 0..MaxRows }

\* the value None
NoParams == [trigger_met |-> 0, T0 |-> 0, T1 |-> 0, ra |-> 0, dec |-> 0,
             tmin |-> 0, tmax |-> 0, row |-> 0]

ParseCall ==
    /\ excel_exists \in BOOLEAN
    /\ df \in Sheets
    /\ grb_name_arg \in SheetNames
    /\ pg_pc = "start"
    /\ grb_row = 0
    /\ params = NoParams
    /\ pg_raised = FALSE

ParseIdle ==
    /\ excel_exists = FALSE
    /\ df = <<>>
    /\ grb_name_arg = <<>>
    /\ pg_pc = "done"
    /\ grb_row = 0
    /\ params = NoParams
    /\ pg_raised = FALSE

\* str.split(','): the pieces between the commas
RECURSIVE split(_)
split(str) ==
    IF \A k \in 1..Len(str) : str[k] # ","
    THEN <<str>>
    ELSE LET c == CHOOSE k \in 1..Len(str) :
                      str[k] = "," /\ \A j \in 1..(k - 1) : str[j] # ","
         IN <<SubSeq(str, 1, c - 1)>> \o split(SubSeq(str, c + 1, Len(str)))

DigitValue(c) ==
    CASE c = "0" -> 0 [] c = "1" -> 1 [] c = "2" -> 2 [] c = "3" -> 3 [] c = "4" -> 4
      [] c = "5" -> 5 [] c = "6" -> 6 [] c = "7" -> 7 [] c = "8" -> 8 [] c = "9" -> 9

\* float(text) of a text of decimal digits; any other text of the tried
\* cells makes float raise ValueError
IsNumber(str) == str # <<>> /\ \A k \in 1..Len(str) : str[k] \in Digits

RECURSIVE float(_)
float(str) ==
    IF str = <<>> THEN 0
    ELSE 10 * float(SubSeq(str, 1, Len(str) - 1)) + DigitValue(str[Len(str)])

\* Faulty variant, for comparison: a start of the window without the margin.
tmin_without_margin(p) == p.trigger_met + p.T0

\* line 116: params['trigger_met'] + params['T0'] - 200
tmin(p) == p.trigger_met + p.T0 - TimeMargin

\* line 117: params['trigger_met'] + params['T1'] + 200
tmax(p) == p.trigger_met + p.T1 + TimeMargin

\* lines 69-80: a missing file raises FileNotFoundError; else the sheet is read
ParseOpen ==
    /\ pg_pc = "start"
    /\ IF excel_exists
       THEN pg_pc' = "find" /\ UNCHANGED pg_raised
       ELSE pg_pc' = "done" /\ pg_raised' = TRUE
    /\ UNCHANGED <<excel_exists, df, grb_name_arg, grb_row, params, notParse>>

\* lines 83-96: the first row whose formatted name equals the formatted
\* argument; ValueError, re-raised at line 122, when there is none
ParseFind ==
    /\ pg_pc = "find"
    /\ LET formatted_grb_name == format_grb_name(grb_name_arg)
           matching == {idx \in 1..Len(df) :
                          format_grb_name(strip(df[idx].gcn_name)) = formatted_grb_name}
       IN IF matching = {}
          THEN /\ pg_pc' = "done"
               /\ pg_raised' = TRUE
               /\ UNCHANGED grb_row
          ELSE /\ grb_row' = CHOOSE idx \in matching : \A k \in matching : idx <= k
               /\ pg_pc' = "ra_dec"
               /\ UNCHANGED pg_raised
    /\ UNCHANGED <<excel_exists, df, grb_name_arg, params, notParse>>

\* lines 98-122: the position, the parameters and the time window
ParseParams ==
    /\ pg_pc = "ra_dec"
    /\ LET ra_dec_parts == split(strip(df[grb_row].ra_dec)) IN
         IF /\ Len(ra_dec_parts) = 2
            /\ IsNumber(strip(ra_dec_parts[1]))
            /\ IsNumber(strip(ra_dec_parts[2]))
         THEN /\ params' = [trigger_met |-> df[grb_row].trigger_met,
                            T0 |-> df[grb_row].T0,
                            T1 |-> df[grb_row].T1,
                            ra |-> float(strip(ra_dec_parts[1])),
                            dec |-> float(strip(ra_dec_parts[2])),
                            tmin |-> tmin(df[grb_row]),
                            tmax |-> tmax(df[grb_row]),
                            row |-> grb_row]
              /\ UNCHANGED pg_raised
         ELSE /\ pg_raised' = TRUE
              /\ UNCHANGED params
    /\ pg_pc' = "done"
    /\ UNCHANGED <<excel_exists, df, grb_name_arg, grb_row, notParse>>

ParseNext ==
    \/ ParseOpen
    \/ ParseFind
    \/ ParseParams

\* ---- properties of SpecParse
\* the rows whose normalised gcn_name equals the normalised argument
MatchingRows ==
    {idx \in 1..Len(df) : format_grb_name(df[idx].gcn_name) = format_grb_name(grb_name_arg)}

Commas(str) == Cardinality({k \in 1..Len(str) : str[k] = ","})

\* C16: a call that returns gives the parameters of the first matching row,
\* with tmin = trigger_met + T0 - 200 and tmax = trigger_met + T1 + 200; a
\* call raises, and returns nothing, when no row matches or when the
\* 'ra,dec' cell of the first matching row is not two comma-separated values.
ParseReturnsFirstMatchingRow ==
    pg_pc = "done" =>
        /\ pg_raised \/ params # NoParams
        /\ pg_raised => params = NoParams
        /\ ~pg_raised =>
              /\ MatchingRows # {}
              /\ params.row \in MatchingRows
              /\ \A k \in MatchingRows : params.row <= k
              /\ params.trigger_met = df[params.row].trigger_met
              /\ params.T0 = df[params.row].T0
              /\ params.T1 = df[params.row].T1
              /\ params.tmin = params.trigger_met + params.T0 - 200
              /\ params.tmax = params.trigger_met + params.T1 + 200
        /\ MatchingRows = {} => pg_raised
        /\ \A idx \in MatchingRows :
              ((\A k \in MatchingRows : idx <= k) /\ Commas(df[idx].ra_dec) # 1) => pg_raised

\* the second row of a sheet, written 'GRB220617A', was found for the
\* argument 'grb 220617a' and its cell '12, 7' gave ra 12 and dec 7
ParseReturnsWitness ==
    /\ pg_pc = "done"
    /\ ~pg_raised
    /\ params.row = 2
    /\ grb_name_arg # df[2].gcn_name
    /\ params.ra = 12 /\ params.dec = 7
    /\ params.tmin = 795 /\ params.tmax = 1210

\* ------------------------------------------------------------------ create_config
\* A source of model.sources
Source(name, ra, dec, spectrum) ==
    [name |-> name, ra |-> ra, dec |-> dec,
     SpectrumType |-> spectrum, SpatialModel |-> "PointSource"]

\* sources a template may list
TemplateSources ==
    { Source("3FGL J0000", 1, 2, "LogParabola"),
      Source("GRB1", 10, -5, "PowerLaw2") }

SourceLists == UNION { [1..n -> TemplateSources] : n \in 0..MaxSources }

\* the 'model' entry of a template: missing, null, or a mapping with or
\* without a 'sources' key (a null value of 'sources' reads as the empty list)
TemplateModels ==
    { [kind |-> "absent", has_sources |-> FALSE, sources |-> <<>>, galdiff |-> ""],
      [kind |-> "null", has_sources |-> FALSE, sources |-> <<>>, galdiff |-> ""],
      [kind |-> "dict", has_sources |-> FALSE, sources |-> <<>>, galdiff |-> "gll_iem"] }
    \cup { [kind |-> "dict", has_sources |-> TRUE, sources |-> l, galdiff |-> "gll_iem"] :
             l \in SourceLists }

TemplateData ==
    { [present |-> FALSE, evfile |-> <<>>, scfile |-> <<>>],
      [present |-> TRUE, evfile |-> <<"old", "ft1.fits">>, scfile |-> <<"old", "ft2.fits">>] }

TemplateSelections ==
    { [present |-> FALSE, ra |-> 0, dec |-> 0, tmin |-> 0, tmax |-> 0, emin |-> 0],
      [present |-> TRUE, ra |-> 1, dec |-> 2, tmin |-> 3, tmax |-> 4, emin |-> 100] }

Templates == [model : TemplateModels, data : TemplateData, selection : TemplateSelections]

GrbParams == [ra : {10, 20}, dec : {-5, 5}, tmin : {795}, tmax : {1210, 5500}]

ConfigCall ==
    /\ template \in Templates
    /\ cc_grb_name \in {"GRB1", "GRB2"}
    /\ grb_params \in GrbParams
    /\ cc_pc = "start"
    /\ config = template
    /\ written = <<>>
    /\ cc_raised = FALSE

ConfigIdle ==
    /\ template = [model |-> [kind |-> "absent", has_sources |-> FALSE,
                              sources |-> <<>>, galdiff |-> ""],
                   data |-> [present |-> FALSE, evfile |-> <<>>, scfile |-> <<>>],
                   selection |-> [present |-> FALSE, ra |-> 0, dec |-> 0,
                                  tmin |-> 0, tmax |-> 0, emin |-> 0]]
    /\ cc_grb_name = ""
    /\ grb_params = [ra |-> 0, dec |-> 0, tmin |-> 0, tmax |-> 0]
    /\ cc_pc = "done"
    /\ config = template
    /\ written = <<>>
    /\ cc_raised = FALSE

\* Faulty variant, for comparison: a template whose sources would be kept.
sources_kept(sources) == sources

\* line 167: config['model']['sources'] = []
sources_cleared(sources) == <<>>

\* lines 162-168: load the template and clear its sources; `'sources' in
\* config['model']` raises TypeError when the template has `model:` null
ConfigClear ==
    /\ cc_pc = "start"
    /\ IF config.model.kind = "null"
       THEN /\ cc_raised' = TRUE
            /\ cc_pc' = "done"
            /\ UNCHANGED config
       ELSE /\ config' = IF config.model.kind = "dict" /\ config.model.has_sources
                         THEN [config EXCEPT !.model.sources = sources_cleared(@)]
                         ELSE config
            /\ cc_pc' = "data"
            /\ UNCHANGED cc_raised
    /\ UNCHANGED <<template, cc_grb_name, grb_params, written, notConfig>>

\* lines 171-172: KeyError when the template has no 'data'
ConfigData ==
    /\ cc_pc = "data"
    /\ IF config.data.present
       THEN /\ config' = [config EXCEPT !.data.evfile = <<cc_grb_name, "ft1.fits">>,
                                        !.data.scfile = <<cc_grb_name, "ft2.fits">>]
            /\ cc_pc' = "selection"
            /\ UNCHANGED cc_raised
       ELSE /\ cc_raised' = TRUE
            /\ cc_pc' = "done"
            /\ UNCHANGED config
    /\ UNCHANGED <<template, cc_grb_name, grb_params, written, notConfig>>

\* lines 175-178: KeyError when the template has no 'selection'
ConfigSelection ==
    /\ cc_pc = "selection"
    /\ IF config.selection.present
       THEN /\ config' = [config EXCEPT !.selection.ra = grb_params.ra,
                                        !.selection.dec = grb_params.dec,
                                        !.selection.tmin = grb_params.tmin,
                                        !.selection.tmax = grb_params.tmax]
            /\ cc_pc' = "sources"
            /\ UNCHANGED cc_raised
       ELSE /\ cc_raised' = TRUE
            /\ cc_pc' = "done"
            /\ UNCHANGED config
    /\ UNCHANGED <<template, cc_grb_name, grb_params, written, notConfig>>

\* lines 182-192: KeyError when the template has no 'model'; else the list
\* is created when missing and the GRB is appended
ConfigAppend ==
    /\ cc_pc = "sources"
    /\ IF config.model.kind = "absent"
       THEN /\ cc_raised' = TRUE
            /\ cc_pc' = "done"
            /\ UNCHANGED config
       ELSE /\ config' = [config EXCEPT
                  !.model.has_sources = TRUE,
                  !.model.sources =
                      Append(IF config.model.has_sources THEN @ ELSE <<>>,
                             Source(cc_grb_name, grb_params.ra, grb_params.dec,
                                    "PowerLaw2"))]
            /\ cc_pc' = "dump"
            /\ UNCHANGED cc_raised
    /\ UNCHANGED <<template, cc_grb_name, grb_params, written, notConfig>>

\* lines 195-199: yaml.dump(config, f, sort_keys=False)
ConfigDump ==
    /\ cc_pc = "dump"
    /\ written' = <<config>>
    /\ cc_pc' = "done"
    /\ UNCHANGED <<template, cc_grb_name, grb_params, config, cc_raised, notConfig>>

ConfigNext ==
    \/ ConfigClear
    \/ ConfigData
    \/ ConfigSelection
    \/ ConfigAppend
    \/ ConfigDump

\* ---- properties of SpecConfig
\* C17: a configuration that was written lists exactly one source, the GRB
\* (its name, ra and dec of grb_params, PowerLaw2, PointSource), whatever
\* sources the template listed, and selects ra, dec, tmin, tmax of grb_params.
ConfigHasOnlyTheGrbSource ==
    written # <<>> =>
        /\ written[1].model.kind = "dict"
        /\ written[1].model.has_sources
        /\ Len(written[1].model.sources) = 1
        /\ written[1].model.sources[1].name = cc_grb_name
        /\ written[1].model.sources[1].ra = grb_params.ra
        /\ written[1].model.sources[1].dec = grb_params.dec
        /\ written[1].model.sources[1].SpectrumType = "PowerLaw2"
        /\ written[1].model.sources[1].SpatialModel = "PointSource"
        /\ written[1].selection.ra = grb_params.ra
        /\ written[1].selection.dec = grb_params.dec
        /\ written[1].selection.tmin = grb_params.tmin
        /\ written[1].selection.tmax = grb_params.tmax

\* a template listing two sources gave a configuration with the GRB only
ConfigOnlyTheGrbWitness ==
    /\ written # <<>>
    /\ Len(template.model.sources) = 2
    /\ Len(written[1].model.sources) = 1
    /\ written[1].model.sources[1].name = "GRB2"

\* ------------------------------------------------------------------ get_grb_list
\* names an entry of GRB_DATA_DIR may have
EntryNames ==
    { <<"G", "R", "B", "1">>, <<"g", "r", "b", "3">>,
      <<"x", "G", "R", "B">>, <<"G", "R", "B">>, <<"G", "R">> }

\* the directories tried: up to MaxListed entries, each a directory or a file
DataDirs ==
    UNION { [S -> {"dir", "file"}] :
              S \in {x \in SUBSET EntryNames : Cardinality(x) <= MaxListed} }

ListCall ==
    /\ data_dir \in [exists : BOOLEAN, entries : DataDirs]
    /\ data_dir.exists \/ data_dir.entries = <<>>
    /\ listing = {}
    /\ gl_pc = "start"
    /\ grb_dirs = <<>>
    /\ gl_raised = FALSE

ListIdle ==
    /\ data_dir = [exists |-> FALSE, entries |-> <<>>]
    /\ listing = {}
    /\ gl_pc = "done"
    /\ grb_dirs = <<>>
    /\ gl_raised = FALSE

\* Faulty variant, for comparison: a test that would take files for directories.
isdir_any(d) == TRUE

\* line 246: os.path.isdir(os.path.join(GRB_DATA_DIR, d))
isdir(d) == data_dir.entries[d] = "dir"

\* line 247: d.startswith('GRB')
startswith_GRB(d) == Len(d) >= 3 /\ SubSeq(d, 1, 3) = <<"G", "R", "B">>

\* line 245: os.listdir(GRB_DATA_DIR) raises when the directory is missing
ListListdir ==
    /\ gl_pc = "start"
    /\ IF data_dir.exists
       THEN /\ listing' = DOMAIN data_dir.entries
            /\ gl_pc' = "filter"
            /\ UNCHANGED gl_raised
       ELSE /\ gl_raised' = TRUE
            /\ gl_pc' = "done"
            /\ UNCHANGED listing
    /\ UNCHANGED <<data_dir, grb_dirs, notList>>

\* lines 245-247: the next entry, in the order the system lists them
ListFilter(d) ==
    /\ gl_pc = "filter"
    /\ d \in listing
    /\ listing' = listing \ {d}
    /\ grb_dirs' = IF isdir(d) /\ startswith_GRB(d) THEN Append(grb_dirs, d)
                   ELSE grb_dirs
    /\ UNCHANGED <<data_dir, gl_pc, gl_raised, notList>>

\* line 248
ListReturn ==
    /\ gl_pc = "filter"
    /\ listing = {}
    /\ gl_pc' = "done"
    /\ UNCHANGED <<data_dir, listing, grb_dirs, gl_raised, notList>>

ListNext ==
    \/ ListListdir
    \/ \E d \in EntryNames : ListFilter(d)
    \/ ListReturn

\* ---- properties of SpecList
\* C18: the list returned holds, once each, exactly the names of the
\* entries of GRB_DATA_DIR that are directories and begin with 'GRB'; it is
\* the empty list when there is none.
GrbListIsTheGrbDirectories ==
    (gl_pc = "done" /\ ~gl_raised) =>
        LET wanted == {d \in DOMAIN data_dir.entries :
                          /\ data_dir.entries[d] = "dir"
                          /\ Len(d) >= 3
                          /\ d[1] = "G" /\ d[2] = "R" /\ d[3] = "B"}
        IN /\ {grb_dirs[k] : k \in 1..Len(grb_dirs)} = wanted
           /\ Len(grb_dirs) = Cardinality(wanted)
           /\ wanted = {} => grb_dirs = <<>>

\* a directory GRB1 was listed and a plain file GRB was not
GrbListWitness ==
    /\ gl_pc = "done"
    /\ ~gl_raised
    /\ grb_dirs = << <<"G", "R", "B", "1">> >>
    /\ <<"G", "R", "B">> \in DOMAIN data_dir.entries

\* ------------------------------------------------------------------ Spec
\* no pure function is being called
PureIdle == PhotonIdle /\ FormatIdle /\ ParseIdle /\ ConfigIdle /\ ListIdle

\* nothing but pure functions is being called
DriversIdle == PoolIdle /\ FetchIdle /\ CleanIdle /\ BackupIdle

Init == PoolInputs /\ PoolStart /\ FetchIdle /\ CleanIdle /\ BackupIdle /\ PureIdle

FetchInit == FetchCall /\ PoolIdle /\ CleanIdle /\ BackupIdle /\ PureIdle

CleanInit == CleanCall /\ PoolIdle /\ FetchIdle /\ BackupIdle /\ PureIdle

BackupInit == BackupCall /\ PoolIdle /\ FetchIdle /\ CleanIdle /\ PureIdle

PhotonInit == PhotonCall /\ DriversIdle /\ FormatIdle /\ ParseIdle /\ ConfigIdle /\ ListIdle

FormatInit == FormatCall /\ DriversIdle /\ PhotonIdle /\ ParseIdle /\ ConfigIdle /\ ListIdle

ParseInit == ParseCall /\ DriversIdle /\ PhotonIdle /\ FormatIdle /\ ConfigIdle /\ ListIdle

ConfigInit == ConfigCall /\ DriversIdle /\ PhotonIdle /\ FormatIdle /\ ParseIdle /\ ListIdle

ListInit == ListCall /\ DriversIdle /\ PhotonIdle /\ FormatIdle /\ ParseIdle /\ ConfigIdle

Next ==
    \/ AnalyzeStart
    \/ DownloadStart
    \/ Submit
    \/ \E i \in Tasks : WorkerStart(i)
    \/ \E i \in Tasks, o \in EngineOutcomes : AnalyzeBody(i, o)
    \/ \E i \in Tasks : WorkerAcquire(i)
    \/ \E i \in Tasks : WorkerAdd(i)
    \/ \E i \in Tasks, o \in TaskOutcomes : ProcessSingleGrb(i, o)
    \/ Tick
    \/ AsCompletedStart
    \/ \E f \in Tasks : AsCompletedYield(f)
    \/ AsCompletedCheck
    \/ AsCompletedWait
    \/ AnalyzeResult
    \/ DownloadResult
    \/ MainAcquire
    \/ MainLocked
    \/ MainLocked2
    \/ MainRelease
    \/ ExitWith

Spec == Init /\ [][Next]_vars

SpecFetch == FetchInit /\ [][FetchNext]_vars

SpecClean == CleanInit /\ [][CleanNext]_vars

SpecBackup == BackupInit /\ [][BackupNext]_vars

SpecPhoton == PhotonInit /\ [][PhotonNext]_vars

SpecFormat == FormatInit /\ [][FormatNext]_vars

SpecParse == ParseInit /\ [][ParseNext]_vars

SpecConfig == ConfigInit /\ [][ConfigNext]_vars

SpecList == ListInit /\ [][ListNext]_vars

\* ------------------------------------------------------------------ properties
DriverEnded == mpc \in {"returned", "raised"}

\* the executor was created: the sheet was read with its required columns
\* and ThreadPoolExecutor accepted max_workers
PoolCreated == excel = "ok" /\ missing_columns = {} /\ max_workers >= 1

Range(q) == {q[j] : j \in DOMAIN q}

Distinct(q) == \A j, k \in DOMAIN q : q[j] = q[k] => j = k

\* threads inside a `with self._lock:` block of the collector
InCollector ==
    {WorkerThread(i) : i \in {j \in Tasks : st[j] = "in_lock"}}
    \cup (IF mpc \in {"locked", "locked2", "release"} THEN {MainThread} ELSE {})

\* C1: at no moment do more than max_workers worker calls execute, in
\* either driver and for any number of items.
BoundedParallelism == Cardinality(Running) <= max_workers

\* the pool is saturated while an item still waits in the queue
BoundedParallelismWitness ==
    /\ max_workers >= 1
    /\ Cardinality(Running) = max_workers
    /\ Queued # {}

CollectorThreadSafe ==
    /\ Cardinality(InCollector) <= 1
    /\ (submitted = Len(grb_list) /\ Finished = Tasks) =>
          /\ passed_result \subseteq DOMAIN results
          /\ passed_error \subseteq DOMAIN errors
    /\ (mpc = "release" /\ mainOp = "get_summary") =>
          summary = <<DictLen(results), DictLen(errors)>>

\* get_summary is about to return while a worker waits for the lock
CollectorThreadSafeWitness ==
    /\ mpc = "release"
    /\ mainOp = "get_summary"
    /\ summary = <<1, 0>>
    /\ \E i \in Tasks : st[i] = "add" /\ out[i] = "exception"

\* C4: when analyze_grb_multithread returns the collector's dictionaries
\* for a list of distinct names, every name is a key of exactly one of them.
CompleteAccounting ==
    (prog = "analyze" /\ mpc = "returned" /\ ret = "dicts" /\ Distinct(grb_list)) =>
        /\ DOMAIN ret_results \cup DOMAIN ret_errors = Range(grb_list)
        /\ DOMAIN ret_results \cap DOMAIN ret_errors = {}
        /\ DictLen(ret_results) + DictLen(ret_errors) = Len(grb_list)

\* a batch of two distinct names returned with one success and one error
CompleteAccountingWitness ==
    /\ prog = "analyze"
    /\ mpc = "returned"
    /\ ret = "dicts"
    /\ Distinct(grb_list)
    /\ Len(grb_list) = 2
    /\ DictLen(ret_results) = 1
    /\ DictLen(ret_errors) = 1

\* C5: when one analysis ran longer than THREAD_TIMEOUT the driver still
\* returns the dictionaries, with that GRB in errors as "analysis timed out".
TimeoutIsPerTask ==
    \A i \in Tasks :
        (prog = "analyze" /\ DriverEnded /\ overtime[i]) =>
            /\ mpc = "returned"
            /\ ret = "dicts"
            /\ grb_list[i] \in DOMAIN ret_errors
            /\ ret_errors[grb_list[i]] = "analysis timed out"

\* once the pool has drained the two counts add up to the number of rows,
\* a task that raised being listed as Task-<row index>
DownloadAccounting ==
    (mpc = "exit" \/ (mpc = "returned" /\ PoolCreated)) =>
        /\ success_count + Len(failed_grbs) = Len(grb_list)
        /\ \A i \in Tasks : out[i] = "raised" => TaskName(i - 1) \in Range(failed_grbs)

\* C8 as stated: process_excel_and_download returns True exactly when every
\* row's task reported success, and the counts add up after the pool.
DownloadReturnsTrueIffAllSucceeded ==
    (prog = "download" /\ mpc = "returned") =>
        /\ ret = "true" <=> \A i \in Tasks : out[i] = "success"
        /\ DownloadAccounting

\* C8 amended: it returns True exactly when the executor was created and
\* every row's task reported success, and the counts add up after the pool.
DownloadReturnsTrueIffPoolAndAllSucceeded ==
    (prog = "download" /\ mpc \in {"exit", "returned"}) =>
        /\ mpc = "returned" =>
              (ret = "true" <=> (PoolCreated /\ \A i \in Tasks : out[i] = "success"))
        /\ DownloadAccounting

\* a drained pool with one success and one raised task
DownloadReturnWitness ==
    /\ prog = "download"
    /\ mpc = "returned"
    /\ ret = "false"
    /\ success_count = 1
    /\ failed_grbs = <<TaskName(0)>>

\* C9: with a required column missing, the driver submits nothing, issues
\* no request, runs no task, and what it returns is False.
MissingColumnsReturnFalse ==
    (prog = "download" /\ excel = "ok" /\ required_columns \ df_columns # {}) =>
        /\ submitted = 0
        /\ \A i \in Tasks : runs[i] = 0
        /\ ~net_requests
        /\ mpc \in {"start", "returned"}
        /\ mpc = "returned" => ret = "false"

\* the driver returned for a sheet of two rows without the T1 column
MissingColumnsWitness ==
    /\ prog = "download"
    /\ excel = "ok"
    /\ required_columns \ df_columns = {"T1"}
    /\ Len(grb_list) = 2
    /\ max_workers >= 1
    /\ mpc = "returned"
    /\ ret = "false"

====
